---- MODULE Spec2Model ----
(***************************************************************************)
(* Model of src/src/src/Typeset/Graphics/curve.cpp: parametric curves     *)
(* (segment, poly_segment, spline, arc, compound, inverted, transformed)  *)
(* and their rectification into polylines.                                *)
(*                                                                         *)
(* Numbers.  A C++ double is modelled by an exact rational <<num, den>>   *)
(* with den > 0 and gcd(num, den) = 1; tm_infinity is the pair <<1, 0>>.  *)
(* A point is a pair <<x, y>> of rationals.  Square roots are never       *)
(* taken: a comparison  l <= 2*sqrt(q)  is decided on the squares.        *)
(* Angles of arcs are kept in turns, as the code keeps e1, e2 and t;      *)
(* cos(2*pi*x) and sin(2*pi*x) are exact at the multiples of a quarter    *)
(* turn and interpolated linearly in between (CosTurn, SinTurn).          *)
(* Where the control flow compares a sum with the number it was built     *)
(* from (the loop of arc_rep::rectify_cumul), every operation is rounded  *)
(* as a double rounds it, to the nearest number of MantissaBits bits,     *)
(* ties to even (RoundDouble); a double has 53 bits.                      *)
(*                                                                         *)
(* Lengths.  The unit of length of the model is 3.0e-6, so the threshold  *)
(* 1.0e-6 of spline_rep::approx is the rational 1/3 (Tiny); no chord of   *)
(* the splines of the model has exactly that length.                      *)
(***************************************************************************)
EXTENDS Integers, Sequences, FiniteSets, TLC

VARIABLES cur, err, pc, res, tq, val, stack, span, steps, ord

vars == <<cur, err, pc, res, tq, val, stack, span, steps, ord>>

(***************************************************************************)
(* Rational arithmetic (the model of double)                               *)
(***************************************************************************)
Abs(x) == IF x < 0 THEN -x ELSE x

RECURSIVE GCD(_, _)
GCD(a, b) == IF b = 0 THEN a ELSE GCD(b, a % b)

Q(n, d) ==
  LET g == GCD(Abs(n), Abs(d))
      s == IF d < 0 THEN -1 ELSE 1
  IN  <<(s * n) \div g, (s * d) \div g>>

Zero == <<0, 1>>
One == <<1, 1>>
Two == <<2, 1>>
Half == <<1, 2>>
IntQ(k) == <<k, 1>>

RNeg(a) == <<-a[1], a[2]>>

RAdd(a, b) ==
  LET g == GCD(a[2], b[2])
  IN  Q(a[1] * (b[2] \div g) + b[1] * (a[2] \div g), (a[2] \div g) * b[2])

RSub(a, b) == RAdd(a, RNeg(b))

RMul(a, b) ==
  LET g1 == GCD(Abs(a[1]), b[2])
      g2 == GCD(Abs(b[1]), a[2])
  IN  <<(a[1] \div g1) * (b[1] \div g2), (a[2] \div g2) * (b[2] \div g1)>>

RInv(a) == IF a[1] < 0 THEN <<-a[2], -a[1]>> ELSE <<a[2], a[1]>>

RDiv(a, b) == RMul(a, RInv(b))

\* a/b < c/d for a, c >= 0 and b, d > 0, by the continued fractions (no
\* product is formed, so that no comparison leaves the integers of TLC)
RECURSIVE FracLt(_, _, _, _)
FracLt(a, b, c, d) ==
  LET q1 == a \div b
      q2 == c \div d
      r1 == a % b
      r2 == c % d
  IN  IF q1 # q2 THEN q1 < q2
      ELSE IF r2 = 0 THEN FALSE
      ELSE IF r1 = 0 THEN TRUE
      ELSE FracLt(d, r2, b, r1)

RLt(a, b) ==
  IF a[1] < 0
    THEN IF b[1] >= 0 THEN TRUE ELSE FracLt(-b[1], b[2], -a[1], a[2])
    ELSE IF b[1] < 0 THEN FALSE ELSE FracLt(a[1], a[2], b[1], b[2])

RLe(a, b) == a = b \/ RLt(a, b)

RMax(a, b) == IF RLt(a, b) THEN b ELSE a

RSq(a) == RMul(a, a)

\* (int) x of C++: truncation towards zero
Trunc(a) == IF a[1] >= 0 THEN a[1] \div a[2] ELSE -((-a[1]) \div a[2])

IMin(i, j) == IF i < j THEN i ELSE j

\* the fractional part of a in [0,1)
Frac(a) == Q(a[1] % a[2], a[2])

RECURSIVE Pow2(_)
Pow2(k) == IF k = 0 THEN 1 ELSE 2 * Pow2(k - 1)

\* the bits of the significand of a double in the model
MantissaBits == 6

\* a * 2^k
Scale(a, k) ==
  IF k >= 0 THEN RMul(a, IntQ(Pow2(k))) ELSE RDiv(a, IntQ(Pow2(-k)))

\* for a > 0, the k with 2^(MantissaBits-1) <= a * 2^(-k) < 2^MantissaBits
RECURSIVE Exponent(_, _)
Exponent(a, k) ==
  IF RLt(Scale(a, -k), IntQ(Pow2(MantissaBits - 1))) THEN Exponent(a, k - 1)
  ELSE IF RLt(Scale(a, -k), IntQ(Pow2(MantissaBits))) THEN k
  ELSE Exponent(a, k + 1)

\* for a > 0, the nearest number with MantissaBits significant bits, ties
\* to even
RoundPositive(a) ==
  LET k == Exponent(a, 0)
      x == Scale(a, -k)
      lo == x[1] \div x[2]
      r2 == 2 * (x[1] % x[2])
      m == IF r2 < x[2] THEN lo
           ELSE IF r2 > x[2] THEN lo + 1
           ELSE IF lo % 2 = 0 THEN lo ELSE lo + 1
  IN  Scale(IntQ(m), k)

\* the result of an operation on doubles whose exact value is a
RoundDouble(a) ==
  IF a = Zero THEN Zero
  ELSE IF a[1] < 0 THEN RNeg(RoundPositive(RNeg(a)))
  ELSE RoundPositive(a)

(***************************************************************************)
(* Points                                                                  *)
(***************************************************************************)
Pt(x, y) == <<IntQ(x), IntQ(y)>>

PAdd(p, q) == <<RAdd(p[1], q[1]), RAdd(p[2], q[2])>>
PSub(p, q) == <<RSub(p[1], q[1]), RSub(p[2], q[2])>>
PScale(k, p) == <<RMul(k, p[1]), RMul(k, p[2])>>
\* inner product of two points (point * point)
PDot(p, q) == RAdd(RMul(p[1], q[1]), RMul(p[2], q[2]))
\* square of norm (p)
Norm2(p) == PDot(p, p)

\* the value of a read outside an array: any point, none of the curve
Garbage == <<<<0, 0>>, <<0, 0>>>>

(***************************************************************************)
(* Polynomials of degree 2 (polynomial, polynomials of the kernel)         *)
(* A polynomial is <<c0, c1, c2>>; a point-valued one is a pair of them.   *)
(***************************************************************************)
\* p (u, o): the o-th derivative of the polynomial p at u
PolyEval(p, u, o) ==
  CASE o = 0 -> RAdd(p[1], RAdd(RMul(p[2], u), RMul(p[3], RSq(u))))
    [] o = 1 -> RAdd(p[2], RMul(Two, RMul(p[3], u)))
    [] OTHER -> RMul(Two, p[3])

PolysEval(pp, u, o) == <<PolyEval(pp[1], u, o), PolyEval(pp[2], u, o)>>

\* point * polynomial
PolysScale(a, q) ==
  << <<RMul(a[1], q[1]), RMul(a[1], q[2]), RMul(a[1], q[3])>>,
     <<RMul(a[2], q[1]), RMul(a[2], q[2]), RMul(a[2], q[3])>> >>

PolyAdd(q, r) == <<RAdd(q[1], r[1]), RAdd(q[2], r[2]), RAdd(q[3], r[3])>>
PolysAdd(pp, qq) == <<PolyAdd(pp[1], qq[1]), PolyAdd(pp[2], qq[2])>>

\* coeffs (p, k): the point made of the k-th coefficients
Coeffs(pp, k) == <<pp[1][k + 1], pp[2][k + 1]>>

(***************************************************************************)
(* Frames (frame.hpp): a scaling  p |-> shift + magnify*p  is linear; the  *)
(* other frame of the model bends the plane and is not.                    *)
(***************************************************************************)
Scaling(magnify, shift) ==
  [magnify |-> magnify, shift |-> shift, linear |-> TRUE]

Bending == [magnify |-> One, shift |-> Pt(0, 0), linear |-> FALSE]

\* f (p)
FrameApply(f, p) ==
  IF p = Garbage THEN Garbage
  ELSE IF f.linear THEN PAdd(f.shift, PScale(f.magnify, p))
  ELSE <<p[1], RAdd(p[2], RSq(p[1]))>>

\* f->direct_bound (p, err)
DirectBound(f, p, e) == RDiv(e, f.magnify)

(***************************************************************************)
(* Segments                                                                *)
(***************************************************************************)
segment(p1, p2) == [p1 |-> p1, p2 |-> p2, kind |-> "segment"]

SegmentEvaluate(c, t) == PAdd(PScale(RSub(One, t), c.p1), PScale(t, c.p2))

(***************************************************************************)
(* Poly-segments: a[0..n] of the code is the sequence a[1..n+1]            *)
(***************************************************************************)
poly_segment(a) == [a |-> a, n |-> Len(a) - 1, kind |-> "poly_segment"]

\* a[i] of the code, i counted from 0; a read outside the array is garbage
PolyAt(c, i) == IF i >= 0 /\ i <= c.n THEN c.a[i + 1] ELSE Garbage

PolySegmentEvaluate(c, t) ==
  LET i == IMin(Trunc(RMul(IntQ(c.n), t)), c.n - 1)
  IN  IF PolyAt(c, i) = Garbage \/ PolyAt(c, i + 1) = Garbage THEN Garbage
      ELSE PAdd(PScale(RSub(One, t), PolyAt(c, i)), PScale(t, PolyAt(c, i + 1)))

(***************************************************************************)
(* Splines.  The arrays a, U, p1, p2, p3, p of the code are functions on   *)
(* the indices of the code (from 0).  a holds the control points the span  *)
(* polynomials are built from at line 205 (with interpol, the solution of  *)
(* the tridiagonal system; without, the points given).                     *)
(***************************************************************************)
epsilon == <<1, 100>>

\* the points after the wrap-around of a closed spline (lines 119-125)
SplineA(a2, close) ==
  LET n0 == Len(a2) - 1
  IN  IF close
        THEN [i \in 0..(n0 + 2) |-> IF i <= n0 THEN a2[i + 1] ELSE a2[i - n0]]
        ELSE [i \in 0..n0 |-> a2[i + 1]]

SplineN(a2, close) == IF close THEN Len(a2) + 1 ELSE Len(a2) - 1

\* the knot vector (lines 126-148); U[n+4], U[n+5] of an open spline are
\* allocated and never written, and are left out
SplineU(n, close) ==
  IF close THEN [i \in 0..(n + 3) |-> IntQ(i)]
  ELSE LET x3 == RAdd(RMul(IntQ(3), epsilon), RSub(One, epsilon))
           xn == IF n >= 3 THEN RAdd(x3, IntQ(n - 2)) ELSE x3
       IN  [i \in 0..(n + 3) |->
              IF i < 3 THEN RMul(IntQ(i), epsilon)
              ELSE IF i <= n THEN RAdd(x3, IntQ(i - 3))
              ELSE RAdd(xn, RMul(IntQ(i - n - 1), epsilon))]

\* d (i, k)
SplineD(U, i, k) == RSub(U[i], U[i - k])

\* the three pieces of the basis function of index i (lines 149-167)
BasisP1(U, i) ==
  LET w == RInv(RMul(SplineD(U, i + 2, 2), SplineD(U, i + 1, 1)))
  IN  <<RMul(RSq(U[i]), w), RMul(RMul(IntQ(-2), U[i]), w), w>>

BasisP2(U, i) ==
  LET w1 == RInv(RMul(SplineD(U, i + 2, 2), SplineD(U, i + 2, 1)))
      w2 == RInv(RMul(SplineD(U, i + 3, 2), SplineD(U, i + 2, 1)))
  IN  <<RNeg(RAdd(RMul(RMul(U[i + 2], U[i]), w1),
                  RMul(RMul(U[i + 3], U[i + 1]), w2))),
        RAdd(RMul(RAdd(U[i + 2], U[i]), w1),
             RMul(RAdd(U[i + 3], U[i + 1]), w2)),
        RNeg(RAdd(w1, w2))>>

BasisP3(U, i) ==
  LET w == RInv(RMul(SplineD(U, i + 3, 2), SplineD(U, i + 3, 1)))
  IN  <<RMul(RSq(U[i + 3]), w), RMul(RMul(IntQ(-2), U[i + 3]), w), w>>

\* p[i] for i = 2..n (lines 204-205)
SplineP(a, n, U) ==
  [i \in 2..n |->
     PolysAdd(PolysScale(a[i], BasisP1(U, i)),
              PolysAdd(PolysScale(a[i - 1], BasisP2(U, i - 1)),
                       PolysScale(a[i - 2], BasisP3(U, i - 2))))]

spline(a2, close) ==
  LET n == SplineN(a2, close)
      a == SplineA(a2, close)
      U == SplineU(n, close)
  IN  [a |-> a, n |-> n, p |-> SplineP(a, n, U), kind |-> "spline", U |-> U]

\* convert (u)
SplineConvert(c, u) == RAdd(c.U[2], RMul(u, RSub(c.U[c.n + 1], c.U[2])))

\* whether the knots were given by a closed spline (unit spacing from 0)
SplineClosed(c) == c.U[1] = One

\* interval_no (u) reads a knot that was never written (U[n+4], U[n+5] of an
\* open spline) or lies past the array when u is outside [U[0], U[n+3]);
\* only a closed spline with u < U[0] ends the scan without such a read
SplineScanDefined(c, u) ==
  \/ RLe(c.U[0], u) /\ RLt(u, c.U[c.n + 3])
  \/ SplineClosed(c) /\ RLt(u, c.U[0])

\* interval_no (u): the first i with U[i] <= u < U[i+1], or -1
SplineIntervalNo(c, u) ==
  LET hits == {i \in 0..(c.n + 2) : RLe(c.U[i], u) /\ RLt(u, c.U[i + 1])}
  IN  IF hits = {} THEN -1
      ELSE CHOOSE i \in hits : \A j \in hits : i <= j

\* spline (i, u, o)
SplineSpan(c, i, u, o) ==
  LET o2 == IF o < 0 \/ o > 2 THEN 0 ELSE o
  IN  PolysEval(c.p[i], u, o2)

SplineEvaluateONoClamp(c, t, o) ==
  LET u == SplineConvert(c, t)
      no == SplineIntervalNo(c, u)
  IN  IF ~SplineScanDefined(c, u) \/ no \notin DOMAIN c.p THEN Garbage
      ELSE SplineSpan(c, no, u, o)

\* evaluate (t, o)
SplineEvaluateO(c, t, o) ==
  LET u == SplineConvert(c, t)
      no == SplineIntervalNo(c, u)
  IN  IF ~SplineScanDefined(c, u) THEN Garbage
      ELSE IF no < 2 THEN SplineSpan(c, 2, c.U[2], o)
      ELSE IF no > c.n THEN SplineSpan(c, c.n, c.U[c.n + 1], o)
      ELSE SplineSpan(c, no, u, o)

SplineEvaluate(c, t) == SplineEvaluateO(c, t, 0)

(***************************************************************************)
(* Arcs.  e1, e2 and the parameter t are in turns, as in the code; alpha   *)
(* is kept in turns too (the code's alpha divided by 2*pi).                *)
(***************************************************************************)
\* cos (2*pi*x): exact at the quarter turns, linear in between
CosTurn(x) ==
  LET f == Frac(x)
  IN  IF RLe(f, Half) THEN RSub(One, RMul(IntQ(4), f))
      ELSE RSub(RMul(IntQ(4), f), IntQ(3))

\* sin (2*pi*x)
SinTurn(x) == CosTurn(RSub(x, <<1, 4>>))

\* the constructor stores the extent e2b - e1b in e2 (line 353)
arc(center, r1, r2, alpha, e1b, e2b) ==
  [r1 |-> r1, r2 |-> r2, kind |-> "arc", center |-> center,
   alpha |-> alpha, e1 |-> e1b, e2 |-> RoundDouble(RSub(e2b, e1b))]

ArcEvaluate(c, t) ==
  LET x == RAdd(c.e1, t)
      ax == <<CosTurn(c.alpha), SinTurn(c.alpha)>>
      ay == <<RNeg(SinTurn(c.alpha)), CosTurn(c.alpha)>>
  IN  PAdd(c.center,
           PAdd(PScale(RMul(c.r1, CosTurn(x)), ax),
                PScale(RMul(c.r2, SinTurn(x)), ay)))

(***************************************************************************)
(* Compound, inverted and transformed curves                               *)
(***************************************************************************)
\* nr_components (): 1 unless overridden
NrComponents(c) ==
  CASE c.kind = "poly_segment" -> c.n
    [] c.kind = "compound" -> c.n1 + c.n2
    [] c.kind = "inverted" -> c.n
    [] c.kind = "transformed" -> c.n
    [] OTHER -> 1

\* c1 * c2
compound(c1, c2) ==
  [kind |-> "compound", n1 |-> NrComponents(c1), n2 |-> NrComponents(c2),
   c1 |-> c1, c2 |-> c2]

invert(c) == [n |-> NrComponents(c), c |-> c, kind |-> "inverted"]

\* f (c)
transformed(f, c) ==
  [n |-> NrComponents(c), c |-> c, f |-> f, kind |-> "transformed"]

\* compound_curve_rep::evaluate: which part is evaluated, and where
CompoundFirst(c, t) == RLe(t, RDiv(IntQ(c.n1), IntQ(c.n1 + c.n2)))

CompoundLocal(c, t) ==
  LET n == IntQ(c.n1 + c.n2)
  IN  IF CompoundFirst(c, t) THEN RDiv(RMul(t, n), IntQ(c.n1))
      ELSE RSub(RDiv(RMul(t, n), IntQ(c.n2)), IntQ(c.n1))

RECURSIVE Evaluate(_, _)
Evaluate(c, t) ==
  CASE c.kind = "segment" -> SegmentEvaluate(c, t)
    [] c.kind = "poly_segment" -> PolySegmentEvaluate(c, t)
    [] c.kind = "spline" -> SplineEvaluate(c, t)
    [] c.kind = "arc" -> ArcEvaluate(c, t)
    [] c.kind = "compound" ->
         IF CompoundFirst(c, t) THEN Evaluate(c.c1, CompoundLocal(c, t))
         ELSE Evaluate(c.c2, CompoundLocal(c, t))
    [] c.kind = "inverted" -> Evaluate(c.c, RSub(One, t))
    [] c.kind = "transformed" -> FrameApply(c.f, Evaluate(c.c, t))

(***************************************************************************)
(* Rectification.  The accumulator of rectify_cumul is a record            *)
(*   ok  : FALSE once fatal_error has stopped the process                  *)
(*   a   : the array of points                                             *)
(*   prm : for each point of a, the parameter of the curve being           *)
(*         rectified that produced it (not in the code: recorded to state  *)
(*         the order of the points)                                        *)
(*   log : the calls made on sub-curves (not in the code either)           *)
(* The fields of a record are written in the order TLC gives them.         *)
(***************************************************************************)
Emit(st, p, t) == [st EXCEPT !.a = Append(@, p), !.prm = Append(@, t)]

Call(st, by, op, c, e) ==
  [st EXCEPT !.log = Append(@, [err |-> e, by |-> by, op |-> op,
                                on |-> c.kind, at |-> Len(st.a)])]

Reverse(s) == [j \in 1..Len(s) |-> s[Len(s) + 1 - j]]

RECURSIVE RectifyCumul(_, _, _)
RECURSIVE RectifyFrom(_, _, _)

SegmentRectifyCumulMid(c, st, e) ==
  Emit(Emit(st, SegmentEvaluate(c, Half), Half), c.p2, One)

\* segment_rep::rectify_cumul
SegmentRectifyCumul(c, st, e) == Emit(st, c.p2, One)

\* poly_segment_rep::rectify_cumul: the loop from i on
RECURSIVE PolySegmentLoop(_, _, _)
PolySegmentLoop(c, st, i) ==
  IF i < c.n
    THEN PolySegmentLoop(c, Emit(st, c.a[i + 2], Q(i + 1, c.n)), i + 1)
    ELSE st

PolySegmentRectifyCumul(c, st, e) == PolySegmentLoop(c, st, 0)

(***************************************************************************)
(* Spline rectification                                                    *)
(***************************************************************************)
Infinity == <<1, 0>>

\* 1.0e-6 in the unit of length of the model (3.0e-6)
Tiny == <<1, 3>>

\* fnull (l, 1.0e-6) for l >= 0, on the square of l
FNullSq(l2) == RLt(l2, RSq(Tiny))

\* the square of curvature (i, t1, t2), or Infinity
SplineCurvatureSq(c, i, t1, t2) ==
  LET a == Coeffs(c.p[i], 2)
      b == Coeffs(c.p[i], 1)
  IN  IF Norm2(a) = Zero THEN Infinity
      ELSE LET t0 == RNeg(RDiv(PDot(a, b), RMul(Two, PDot(a, a))))
               t == IF RLt(t0, t1) THEN t1 ELSE IF RLt(t2, t0) THEN t2 ELSE t0
               pp == SplineSpan(c, i, t, 1)
               ps == SplineSpan(c, i, t, 2)
           IN  IF Norm2(ps) = Zero THEN Infinity
               ELSE RDiv(RSq(Norm2(pp)), Norm2(ps))

\* the square of norm (p1 - p2) (lines 270-272)
SplineChordRawSq(c, i, u1, u2) ==
  Norm2(PSub(SplineSpan(c, i, u1, 0), SplineSpan(c, i, u2, 0)))

SplineChordSqNoSnap(c, i, u1, u2) == SplineChordRawSq(c, i, u1, u2)

\* the square of the chord length l after the snap to 0 (line 275)
SplineChordSq(c, i, u1, u2) ==
  LET l2 == SplineChordRawSq(c, i, u1, u2)
  IN  IF l2 # Zero /\ FNullSq(l2) THEN Zero ELSE l2

\* approx (i, u1, u2, err):  l <= 2*sqrt(2*R*err), decided on the fourth
\* powers; sqrt of a negative number and infinity times 0 are NaN, and a
\* comparison with NaN is false
SplineApprox(c, i, u1, u2, e) ==
  LET l2 == SplineChordSq(c, i, u1, u2)
      R2 == SplineCurvatureSq(c, i, u1, u2)
  IN  IF RLt(e, Zero) THEN FALSE
      ELSE IF R2 = Infinity THEN e # Zero
      ELSE RLe(RSq(l2), RMul(IntQ(64), RMul(R2, RSq(e))))

\* the parameter t of evaluate (t) with convert (t) = u
SplineParam(c, u) == RDiv(RSub(u, c.U[2]), RSub(c.U[c.n + 1], c.U[2]))

\* rectify_cumul (cum, i, u1, u2, err)
RECURSIVE SplineRectifySpan(_, _, _, _, _, _)
SplineRectifySpan(c, st, i, u1, u2, e) ==
  IF SplineApprox(c, i, u1, u2, e)
    THEN Emit(st, SplineSpan(c, i, u2, 0), SplineParam(c, u2))
    ELSE LET u == RDiv(RAdd(u1, u2), Two)
         IN  SplineRectifySpan(c, SplineRectifySpan(c, st, i, u1, u, e),
                               i, u, u2, e)

\* rectify_cumul (cum, err): the loop from span i on
RECURSIVE SplineLoop(_, _, _, _)
SplineLoop(c, st, i, e) ==
  IF i <= c.n
    THEN SplineLoop(c, SplineRectifySpan(c, st, i, c.U[i], c.U[i + 1], e),
                    i + 1, e)
    ELSE st

SplineRectifyCumul(c, st, e) == SplineLoop(c, st, 2, e)

(***************************************************************************)
(* Arc rectification                                                       *)
(***************************************************************************)
\* tm_PI
tm_PI == <<355, 113>>

\* the largest k with k*k <= m
RECURSIVE ISqrtFrom(_, _)
ISqrtFrom(m, k) == IF (k + 1) * (k + 1) > m THEN k ELSE ISqrtFrom(m, k + 1)

\* sqrt (q) for q >= 0: exact when q is the square of a rational, rounded
\* down to a multiple of 1/den otherwise
SqrtQ(q) == Q(ISqrtFrom(q[1] * q[2], 0), q[2])

\* step (line 370)
ArcStep(c, e) ==
  RoundDouble(RDiv(SqrtQ(RDiv(RMul(Two, e), RMax(c.r1, c.r2))), tm_PI))

\* the for loop of line 371 from t on (t += step rounds): the accumulator
\* and the final t
RECURSIVE ArcLoop(_, _, _, _)
ArcLoop(c, st, t, step) ==
  IF RLe(t, c.e2)
    THEN ArcLoop(c, Emit(st, ArcEvaluate(c, t), t),
                 RoundDouble(RAdd(t, step)), step)
    ELSE [t |-> t, st |-> st]

\* arc_rep::rectify_cumul; t-step of line 373 rounds
ArcRectifyCumul(c, st, e) ==
  LET step == ArcStep(c, e)
      l == ArcLoop(c, st, step, step)
  IN  IF RoundDouble(RSub(l.t, step)) # c.e2
        THEN Emit(l.st, ArcEvaluate(c, c.e2), c.e2)
        ELSE l.st

(***************************************************************************)
(* Rectification of compound, inverted and transformed curves              *)
(***************************************************************************)
\* the parameter of c1 * c2 at which evaluate reaches c1 (s), resp. c2 (s)
CompoundParam1(c, s) == RDiv(RMul(s, IntQ(c.n1)), IntQ(c.n1 + c.n2))
CompoundParam2(c, s) ==
  RDiv(RMul(RAdd(s, IntQ(c.n1)), IntQ(c.n2)), IntQ(c.n1 + c.n2))

\* prm with the entries after position k, parameters of part 1 or 2 of c,
\* replaced by the parameters of c
RescaleFrom(st, k, c, part) ==
  [st EXCEPT !.prm =
     [j \in 1..Len(@) |->
        IF j <= k THEN @[j]
        ELSE IF part = 1 THEN CompoundParam1(c, @[j])
        ELSE CompoundParam2(c, @[j])]]

CompoundRectifyCumulSwapped(c, st, e) ==
  LET s2 == RectifyCumul(c.c2, Call(st, "compound", "rectify_cumul", c.c2, e), e)
  IN  IF ~s2.ok THEN s2
      ELSE RectifyCumul(c.c1, Call(s2, "compound", "rectify_cumul", c.c1, e), e)

\* compound_curve_rep::rectify_cumul
CompoundRectifyCumul(c, st, e) ==
  LET s1 == RescaleFrom(
              RectifyCumul(c.c1, Call(st, "compound", "rectify_cumul", c.c1, e), e),
              Len(st.prm), c, 1)
  IN  IF ~s1.ok THEN s1
      ELSE RescaleFrom(
             RectifyCumul(c.c2, Call(s1, "compound", "rectify_cumul", c.c2, e), e),
             Len(s1.prm), c, 2)

\* the loop of line 442 from i down to 0 (b counted from 0)
RECURSIVE InvertedLoop(_, _, _)
InvertedLoop(st, b, i) ==
  IF i >= 0
    THEN InvertedLoop(Emit(st, b.a[i + 1], RSub(One, b.prm[i + 1])), b, i - 1)
    ELSE st

\* inverted_curve_rep::rectify_cumul
InvertedRectifyCumul(c, st, e) ==
  LET b == RectifyFrom(c.c, e, Call(st, "inverted", "rectify", c.c, e).log)
  IN  IF ~b.ok THEN [st EXCEPT !.ok = FALSE, !.log = b.log]
      ELSE InvertedLoop([st EXCEPT !.log = b.log], b, Len(b.a) - 1)

\* the loop of line 472 from i on (b counted from 0)
RECURSIVE TransformedLoop(_, _, _, _)
TransformedLoop(f, st, b, i) ==
  IF i < Len(b.a)
    THEN TransformedLoop(f, Emit(st, FrameApply(f, b.a[i + 1]), b.prm[i + 1]),
                         b, i + 1)
    ELSE st

TransformedRectifyCumulAnyFrame(c, st, e) ==
  LET delta == DirectBound(c.f, Evaluate(c.c, Zero), e)
      b == RectifyFrom(c.c, delta,
                       Call(st, "transformed", "rectify", c.c, delta).log)
  IN  IF ~b.ok THEN [st EXCEPT !.ok = FALSE, !.log = b.log]
      ELSE TransformedLoop(c.f, [st EXCEPT !.log = b.log], b, 0)

\* transformed_curve_rep::rectify_cumul
TransformedRectifyCumul(c, st, e) ==
  IF c.f.linear
    THEN LET delta == DirectBound(c.f, Evaluate(c.c, Zero), e)
             b == RectifyFrom(c.c, delta,
                              Call(st, "transformed", "rectify", c.c, delta).log)
         IN  IF ~b.ok THEN [st EXCEPT !.ok = FALSE, !.log = b.log]
             ELSE TransformedLoop(c.f, [st EXCEPT !.log = b.log], b, 0)
    ELSE [st EXCEPT !.ok = FALSE]

\* the virtual call c->rectify_cumul (a, err); nothing runs after a fatal error
RectifyCumul(c, st, e) ==
  IF ~st.ok THEN st
  ELSE CASE c.kind = "segment" -> SegmentRectifyCumul(c, st, e)
         [] c.kind = "poly_segment" -> PolySegmentRectifyCumul(c, st, e)
         [] c.kind = "spline" -> SplineRectifyCumul(c, st, e)
         [] c.kind = "arc" -> ArcRectifyCumul(c, st, e)
         [] c.kind = "compound" -> CompoundRectifyCumul(c, st, e)
         [] c.kind = "inverted" -> InvertedRectifyCumul(c, st, e)
         [] c.kind = "transformed" -> TransformedRectifyCumul(c, st, e)

\* curve_rep::rectify, with the calls logged so far
RectifyFrom(c, e, log) ==
  RectifyCumul(c, [a |-> <<Evaluate(c, Zero)>>, prm |-> <<Zero>>, log |-> log,
                   ok |-> TRUE], e)

\* curve_rep::rectify
Rectify(c, e) == RectifyFrom(c, e, <<>>)

(***************************************************************************)
(* Bounds and inputs                                                       *)
(***************************************************************************)
\* the largest number of curve objects in one curve
MaxNodes == 4

\* the deepest bisection of a knot span the stepwise rectifier follows
MaxDepth == 4

PA == Pt(0, 0)
PB == Pt(2, 0)
PC == Pt(2, 2)
PD == Pt(0, 2)

Points == {PA, PB, PC}

PolyInputs == {<<PA, PB, PC>>, <<PA, PB, PC, PD>>}

\* control points and the close flag
SplineInputs ==
  {[a |-> <<PA, PB, PA>>, close |-> TRUE],
   [a |-> <<PA, Pt(1, 0), Pt(1, 1)>>, close |-> FALSE]}

\* e1 and e2 as given to arc (): a quarter turn, a full turn, an extent that
\* is twice the step of tolerance 1/2 and radius 1 (41/128, the double
\* nearest to 113/355), and no extent
ArcInputs ==
  {[e1 |-> Zero, e2 |-> <<1, 4>>], [e1 |-> <<1, 4>>, e2 |-> <<5, 4>>],
   [e1 |-> Zero, e2 |-> <<41, 64>>], [e1 |-> <<1, 4>>, e2 |-> <<1, 4>>]}

Frames == {Scaling(Half, PB), Bending}

ErrSet == {<<1, 8>>, <<1, 2>>}

TSet == {Zero, <<1, 4>>, <<1, 3>>, Half, <<2, 3>>, <<3, 4>>, One}

\* derivative orders asked of evaluate (t, o)
Orders == {-1, 0, 1, 2, 3}

RECURSIVE Size(_)
Size(c) ==
  CASE c.kind = "compound" -> 1 + Size(c.c1) + Size(c.c2)
    [] c.kind \in {"inverted", "transformed"} -> 1 + Size(c.c)
    [] OTHER -> 1

NoResult == [a |-> <<>>, prm |-> <<>>, log |-> <<>>, ok |-> TRUE]

(***************************************************************************)
(* The curve algebra: curves are built by the factory operations, then     *)
(* rectified or evaluated.                                                 *)
(***************************************************************************)
Init ==
  /\ cur = segment(PA, PB)
  /\ err = One
  /\ pc = "built"
  /\ res = NoResult
  /\ tq = Zero
  /\ val = PA
  /\ stack = <<>>
  /\ span = 0
  /\ steps = 0
  /\ ord = 0

Built(c) ==
  /\ pc = "built"
  /\ cur' = c
  /\ UNCHANGED <<err, pc, res, tq, val, stack, span, steps, ord>>

MakeSegment == \E p1 \in Points, p2 \in Points : Built(segment(p1, p2))

MakePolySegment == \E a \in PolyInputs : Built(poly_segment(a))

MakeSpline == \E i \in SplineInputs : Built(spline(i.a, i.close))

MakeArc ==
  \E i \in ArcInputs, r2 \in {One, Two} :
     Built(arc(PA, One, r2, Zero, i.e1, i.e2))

Leaves ==
  {segment(PA, PB), segment(PB, PC)}
    \cup {poly_segment(a) : a \in PolyInputs}

\* c1 * c2 with the curve at hand as c1 or as c2
Compose ==
  /\ Size(cur) + 1 < MaxNodes
  /\ \E l \in Leaves :
       \/ Built(compound(cur, l))
       \/ Built(compound(l, cur))

Invert ==
  /\ Size(cur) < MaxNodes
  /\ Built(invert(cur))

Transform ==
  /\ Size(cur) < MaxNodes
  /\ \E f \in Frames : Built(transformed(f, cur))

DoRectify ==
  /\ pc = "built"
  /\ \E e \in ErrSet :
       /\ err' = e
       /\ res' = Rectify(cur, e)
  /\ pc' = "rectified"
  /\ UNCHANGED <<cur, tq, val, stack, span, steps, ord>>

DoEvaluate ==
  /\ pc = "built"
  /\ \E t \in TSet :
       /\ tq' = t
       /\ val' = Evaluate(cur, t)
  /\ pc' = "evaluated"
  /\ UNCHANGED <<cur, err, res, stack, span, steps, ord>>

\* evaluate (t, o) of a spline, as grad and bound call it
DoEvaluateOrder ==
  /\ pc = "built"
  /\ cur.kind = "spline"
  /\ \E t \in TSet, o \in Orders :
       /\ tq' = t
       /\ ord' = o
       /\ val' = SplineEvaluateO(cur, t, o)
  /\ pc' = "derived"
  /\ UNCHANGED <<cur, err, res, stack, span, steps>>

Next ==
  \/ MakeSegment
  \/ MakePolySegment
  \/ MakeSpline
  \/ MakeArc
  \/ Compose
  \/ Invert
  \/ Transform
  \/ DoRectify
  \/ DoEvaluate
  \/ DoEvaluateOrder

Spec == Init /\ [][Next]_vars

(***************************************************************************)
(* Spline rectification step by step: curve_rep::rectify on a spline, the  *)
(* recursion of rectify_cumul (cum, i, u1, u2, err) unfolded on a stack of *)
(* pending calls [i, u1, u2, d], d the depth of the bisection.             *)
(***************************************************************************)
\* splines and tolerances; an open spline is given tolerances that accept
\* after one bisection (its knot offsets of 0.01 make deeper values large)
SplineRuns ==
  {[err |-> e, a |-> a, close |-> TRUE] :
     a \in {<<PA, PB, PA>>, <<PA, PB, PC>>, <<PA, Pt(4, 0), PA>>,
            <<PA, PB, PC, PD>>},
     e \in {<<1, 128>>, <<1, 32>>, <<1, 8>>}}
    \cup {[err |-> e, a |-> <<PA, Pt(1, 0), Pt(1, 1)>>, close |-> FALSE] :
            e \in {<<1, 8>>, <<1, 2>>}}

InitSpline ==
  /\ \E r \in SplineRuns :
       /\ cur = spline(r.a, r.close)
       /\ err = r.err
  /\ pc = "start"
  /\ res = NoResult
  /\ tq = Zero
  /\ val = PA
  /\ stack = <<>>
  /\ span = 0
  /\ steps = 0
  /\ ord = 0

\* rectify: the array is seeded with evaluate (0.0), the loop starts at span 2
SplineStart ==
  /\ pc = "start"
  /\ res' = [NoResult EXCEPT !.a = <<Evaluate(cur, Zero)>>, !.prm = <<Zero>>]
  /\ span' = 2
  /\ pc' = "loop"
  /\ steps' = steps + 1
  /\ UNCHANGED <<cur, err, tq, val, stack, ord>>

\* the loop of rectify_cumul (cum, err) calls the next span
SplineCallSpan ==
  /\ pc = "loop"
  /\ stack = <<>>
  /\ span <= cur.n
  /\ stack' = <<[d |-> 0, i |-> span, u1 |-> cur.U[span],
                 u2 |-> cur.U[span + 1]]>>
  /\ span' = span + 1
  /\ steps' = steps + 1
  /\ UNCHANGED <<cur, err, pc, res, tq, val, ord>>

\* the call on top of the stack passes approx: one point, and it returns
SplineAccept ==
  /\ pc = "loop"
  /\ stack # <<>>
  /\ LET f == Head(stack)
     IN  /\ SplineApprox(cur, f.i, f.u1, f.u2, err)
         /\ res' = Emit(res, SplineSpan(cur, f.i, f.u2, 0),
                        SplineParam(cur, f.u2))
  /\ stack' = Tail(stack)
  /\ steps' = steps + 1
  /\ UNCHANGED <<cur, err, pc, tq, val, span, ord>>

SplineHalvesRightFirst(f) ==
  LET u == RDiv(RAdd(f.u1, f.u2), Two)
  IN  <<[d |-> f.d + 1, i |-> f.i, u1 |-> u, u2 |-> f.u2],
        [d |-> f.d + 1, i |-> f.i, u1 |-> f.u1, u2 |-> u]>>

\* the two calls made for a call f that fails approx, in the order in which
\* they run (lines 286-288)
SplineHalves(f) ==
  LET u == RDiv(RAdd(f.u1, f.u2), Two)
  IN  <<[d |-> f.d + 1, i |-> f.i, u1 |-> f.u1, u2 |-> u],
        [d |-> f.d + 1, i |-> f.i, u1 |-> u, u2 |-> f.u2]>>

\* it fails approx: the two halves are called, the left one first
SplineBisect ==
  /\ pc = "loop"
  /\ stack # <<>>
  /\ LET f == Head(stack)
     IN  /\ ~SplineApprox(cur, f.i, f.u1, f.u2, err)
         /\ f.d < MaxDepth
         /\ stack' = SplineHalves(f) \o Tail(stack)
  /\ steps' = steps + 1
  /\ UNCHANGED <<cur, err, pc, res, tq, val, span, ord>>

\* the loop is over: rectify returns the array
SplineReturn ==
  /\ pc = "loop"
  /\ stack = <<>>
  /\ span > cur.n
  /\ pc' = "done"
  /\ steps' = steps + 1
  /\ UNCHANGED <<cur, err, res, tq, val, stack, span, ord>>

NextSpline ==
  \/ SplineStart
  \/ SplineCallSpan
  \/ SplineAccept
  \/ SplineBisect
  \/ SplineReturn

SpecSpline == InitSpline /\ [][NextSpline]_vars

(***************************************************************************)
(* Properties                                                              *)
(***************************************************************************)
Last(s) == s[Len(s)]

Rectified == pc = "rectified"

Evaluated == pc = "evaluated"

InUnit(t) == RLe(Zero, t) /\ RLe(t, One)

\* C1: the sequence returned by rectify (err) starts at evaluate (0) and ends
\* at evaluate (1), for every curve and every err > 0
C1_Endpoints ==
  Rectified /\ res.ok =>
    /\ res.a[1] = Evaluate(cur, Zero)
    /\ Last(res.a) = Evaluate(cur, One)

\* C2: invert (c).rectify (err) is c.rectify (err) read in reverse order
C2_Reversal ==
  Rectified /\ res.ok /\ cur.kind = "inverted" =>
    res.a = Reverse(Rectify(cur.c, err).a)

\* C3: the parameters that produced consecutive points of rectify (err)
\* are strictly increasing
C3_Monotone ==
  Rectified /\ res.ok =>
    \A j \in 1..(Len(res.prm) - 1) : RLt(res.prm[j], res.prm[j + 1])

\* whether a transformed curve with a frame that is not linear occurs in c
RECURSIVE HasNonLinear(_)
HasNonLinear(c) ==
  CASE c.kind = "compound" -> HasNonLinear(c.c1) \/ HasNonLinear(c.c2)
    [] c.kind = "inverted" -> HasNonLinear(c.c)
    [] c.kind = "transformed" -> ~c.f.linear \/ HasNonLinear(c.c)
    [] OTHER -> FALSE

\* C4: rectifying a transformed curve whose frame is not linear, nested or
\* not, ends in the fatal error and returns no sequence; at the top no
\* sub-curve is rectified and no point appended; when nested, the call that
\* reached a transformed curve is the last one made, and when all calls were
\* made by compound curves, on the accumulator of the result, nothing was
\* appended after it
C4_NotImplemented ==
  Rectified /\ HasNonLinear(cur) =>
    /\ ~res.ok
    /\ cur.kind = "transformed" /\ ~cur.f.linear =>
         res.log = <<>> /\ Len(res.a) = 1
    /\ res.log # <<>> => Last(res.log).on = "transformed"
    /\ res.log # <<>> /\ (\A k \in 1..Len(res.log) : res.log[k].by = "compound") =>
         Last(res.log).at = Len(res.a)

C4_Witness ==
  /\ Rectified
  /\ cur.kind = "compound"
  /\ cur.c2.kind = "transformed"
  /\ ~cur.c2.f.linear
  /\ ~res.ok
  /\ Len(res.a) >= 3

\* the parameter of the part of c1 * c2 that the proportional split gives
C5_Local(c, t) ==
  LET n == IntQ(c.n1 + c.n2)
  IN  IF RLe(t, RDiv(IntQ(c.n1), n)) THEN RDiv(RMul(t, n), IntQ(c.n1))
      ELSE RDiv(RSub(RMul(t, n), IntQ(c.n1)), IntQ(c.n2))

\* C5: evaluate (t) of c1 * c2 evaluates one part at a local parameter of
\* [0,1], the position of t within the share of that part; at n1/(n1+n2)
\* it is c1 (1) and at 1 it is c2 (1)
C5_CompoundEvaluate ==
  Evaluated /\ cur.kind = "compound" =>
    /\ InUnit(CompoundLocal(cur, tq))
    /\ CompoundLocal(cur, tq) = C5_Local(cur, tq)
    /\ tq = Q(cur.n1, cur.n1 + cur.n2) => val = Evaluate(cur.c1, One)
    /\ tq = One => val = Evaluate(cur.c2, One)

\* C7: rectify (err) of segment (p1, p2) is exactly [p1, p2]
C7_Segment ==
  Rectified /\ cur.kind = "segment" =>
    res.ok /\ res.a = <<cur.p1, cur.p2>>

C7_Witness ==
  /\ Rectified
  /\ cur.kind = "segment"
  /\ cur.p1 # cur.p2
  /\ err = <<1, 8>>
  /\ Len(res.a) = 2

\* C8: a poly-segment is linear on each of its n equal sub-intervals:
\* evaluate (t) is the point of [a[k], a[k+1]] at the position of t within
\* the k-th sub-interval, and evaluate (k/n) = a[k]
C8_PolySegment ==
  Evaluated /\ cur.kind = "poly_segment" =>
    LET k == IMin(Trunc(RMul(IntQ(cur.n), tq)), cur.n - 1)
        s == RSub(RMul(IntQ(cur.n), tq), IntQ(k))
    IN  /\ val = PAdd(PScale(RSub(One, s), PolyAt(cur, k)),
                      PScale(s, PolyAt(cur, k + 1)))
        /\ \A j \in 0..cur.n : tq = Q(j, cur.n) => val = PolyAt(cur, j)

\* C9: the rectification of a transformed curve with a linear frame f is
\* the image under f, point by point, of c.rectify (delta), c being
\* rectified once with delta = f.direct_bound (c (0), err)
C9_Image ==
  Rectified /\ res.ok /\ cur.kind = "transformed" /\ cur.f.linear =>
    LET delta == DirectBound(cur.f, Evaluate(cur.c, Zero), err)
        b == Rectify(cur.c, delta)
    IN  /\ res.log[1] = [err |-> delta, by |-> "transformed",
                         op |-> "rectify", on |-> cur.c.kind, at |-> 1]
        /\ Len(res.log) = 1 + Len(b.log)
        /\ Len(res.a) = Len(b.a)
        /\ \A j \in 1..Len(b.a) : res.a[j] = FrameApply(cur.f, b.a[j])

\* C10: rectify_cumul of c1 * c2 lets c1, then c2, append its points, both
\* with err, and leaves the accumulator as it was: the result is
\* c1.rectify (err) followed by c2.rectify (err) without its first point
C10_Concatenation ==
  Rectified /\ cur.kind = "compound" =>
    LET r1 == Rectify(cur.c1, err)
        r2 == Rectify(cur.c2, err)
    IN  /\ res.ok = (r1.ok /\ r2.ok)
        /\ res.log[1] = [err |-> err, by |-> "compound",
                         op |-> "rectify_cumul", on |-> cur.c1.kind, at |-> 1]
        /\ r1.ok =>
             /\ SubSeq(res.a, 1, Len(r1.a)) = r1.a
             /\ res.log[Len(r1.log) + 2] =
                  [err |-> err, by |-> "compound",
                   op |-> "rectify_cumul", on |-> cur.c2.kind, at |-> Len(r1.a)]
        /\ res.ok => res.a = r1.a \o Tail(r2.a)

C10_Witness ==
  /\ Rectified
  /\ cur.kind = "compound"
  /\ res.ok
  /\ cur.c1.kind = "arc"
  /\ cur.c2.kind = "poly_segment"
  /\ Len(res.a) >= 6

\* the calls a pending call at depth d can still make down to MaxDepth
Work(d) == Pow2(MaxDepth - d + 1) - 1

RECURSIVE StackWork(_)
StackWork(st) == IF st = <<>> THEN 0 ELSE Work(Head(st).d) + StackWork(Tail(st))

\* a bound on the steps left before rectify returns
Rank ==
  CASE pc = "start" -> 2 + (cur.n - 1) * (Work(0) + 1)
    [] pc = "loop" -> 1 + (cur.n - span + 1) * (Work(0) + 1) + StackWork(stack)
    [] OTHER -> 0

\* every pending call covers the 2^d-th part of its knot span
Halved ==
  \A k \in 1..Len(stack) :
     LET f == stack[k]
     IN  RMul(IntQ(Pow2(f.d)), RSub(f.u2, f.u1))
           = RSub(cur.U[f.i + 1], cur.U[f.i])

\* the call on top of the stack is accepted, or bisected above MaxDepth;
\* a chord below 1.0e-6 is accepted whatever the curvature
Stops ==
  pc = "loop" /\ stack # <<>> =>
    LET f == Head(stack)
    IN  /\ SplineApprox(cur, f.i, f.u1, f.u2, err) \/ f.d < MaxDepth
        /\ FNullSq(SplineChordRawSq(cur, f.i, f.u1, f.u2)) =>
             SplineApprox(cur, f.i, f.u1, f.u2, err)

\* C6: rectify (err) on a spline terminates with a non-empty sequence: the
\* steps taken and the bound Rank on the steps left never exceed the bound
\* at the start, the sub-spans halve, a pending call is never refused at
\* MaxDepth (a chord below 1.0e-6 passes approx whatever R is), and when no
\* step is left rectify has returned at least one point for each span
C6_Terminates ==
  pc \in {"start", "loop", "done"} =>
    /\ steps + Rank <= 2 + (cur.n - 1) * (Work(0) + 1)
    /\ Rank >= 0
    /\ Halved
    /\ Stops
    /\ pc = "loop" /\ stack = <<>> => span <= cur.n + 1
    /\ pc = "done" => Len(res.a) >= cur.n

\* rectify has returned from a spline, and two consecutive points of the
\* result bound a sub-span with curvature radius 0 that was accepted because
\* its chord, not 0, is below 1.0e-6
C6_Witness ==
  /\ pc = "done"
  /\ res.ok
  /\ Len(res.a) > cur.n + 1
  /\ \E j \in 2..Len(res.a), i \in 2..cur.n :
       LET u1 == SplineConvert(cur, res.prm[j - 1])
           u2 == SplineConvert(cur, res.prm[j])
       IN  /\ RLe(cur.U[i], u1)
           /\ RLe(u2, cur.U[i + 1])
           /\ SplineCurvatureSq(cur, i, u1, u2) = Zero
           /\ SplineChordRawSq(cur, i, u1, u2) # Zero
           /\ FNullSq(SplineChordRawSq(cur, i, u1, u2))

\* the knot-range parameters convert (t) of the points of the result
C11_Knots == [j \in 1..Len(res.prm) |-> SplineConvert(cur, res.prm[j])]

\* C11: spans i = 2..n are rectified in ascending order; every point appended
\* is the polynomial of its span at the end u2 of an accepted sub-span, and
\* the pending calls cover, left to right and without gap, the rest of the
\* span from the last point appended on; hence the parameters of the points
\* are strictly increasing, every knot U[i+1] of a span done is among them,
\* and the last one of the result is U[n+1]
C11_Order ==
  pc \in {"loop", "done"} =>
    LET us == C11_Knots
        m == Len(us)
        i0 == span - 1
    IN  /\ m >= 1 /\ Len(res.a) = m /\ us[1] = cur.U[2]
        /\ \A j \in 1..(m - 1) : RLt(us[j], us[j + 1])
        /\ \A j \in 2..m :
             \E i \in 2..IMin(i0, cur.n) :
                /\ RLt(cur.U[i], us[j]) /\ RLe(us[j], cur.U[i + 1])
                /\ res.a[j] = SplineSpan(cur, i, us[j], 0)
        /\ stack # <<>> =>
             /\ \A k \in 1..Len(stack) : stack[k].i = i0
             /\ Head(stack).u1 = us[m]
             /\ \A k \in 1..(Len(stack) - 1) : stack[k].u2 = stack[k + 1].u1
             /\ stack[Len(stack)].u2 = cur.U[span]
             /\ \A k \in 1..Len(stack) : RLt(stack[k].u1, stack[k].u2)
        /\ stack = <<>> => us[m] = cur.U[span]
        /\ \A i \in 2..cur.n :
             i < i0 \/ (i = i0 /\ stack = <<>>) =>
               \E j \in 2..m : us[j] = cur.U[i + 1]
        /\ pc = "done" => span = cur.n + 1 /\ us[m] = cur.U[cur.n + 1]

\* rectify has returned from a spline of several spans, one of them bisected
C11_Witness ==
  /\ pc = "done"
  /\ cur.n >= 4
  /\ \E j \in 2..Len(res.prm) :
       \A i \in 2..(cur.n + 1) : C11_Knots[j] # cur.U[i]
  /\ C11_Knots[Len(res.prm)] = cur.U[cur.n + 1]

\* C12: rectify_cumul of an arc of extent e appends the points at step,
\* step + step, ... up to e, then the point at e unless the last of these
\* is e: no parameter exceeds e, the parameters increase strictly, and the
\* last point is the one at e when e > 0
C12_ArcSteps ==
  Rectified /\ cur.kind = "arc" =>
    LET step == ArcStep(cur, err)
        e == cur.e2
        m == Len(res.prm)
    IN  /\ res.ok /\ Len(res.a) = m /\ res.prm[1] = Zero
        /\ RLe(step, e) => res.prm[2] = step
        /\ \A j \in 2..(m - 1) :
             \/ res.prm[j + 1] = RoundDouble(RAdd(res.prm[j], step))
             \/ j + 1 = m /\ res.prm[m] = e
        /\ \A j \in 2..m :
             RLe(res.prm[j], e) /\ res.a[j] = ArcEvaluate(cur, res.prm[j])
        /\ \A j \in 1..(m - 1) : RLt(res.prm[j], res.prm[j + 1])
        /\ RLt(Zero, e) => res.prm[m] = e

\* C13: evaluate (t, o) of a spline, for t in [0,1], reads a span polynomial
\* p[i] with 2 <= i <= n only, the ones the constructor builds: span 2 at
\* U[2] when the interval of convert (t) is below 2, span n at U[n+1] when it
\* is above n, the span of the interval at convert (t) otherwise; an order
\* outside 0..2 is order 0
C13_Clamp ==
  pc = "derived" /\ InUnit(tq) =>
    LET u == SplineConvert(cur, tq)
        no == SplineIntervalNo(cur, u)
        i == IF no < 2 THEN 2 ELSE IF no > cur.n THEN cur.n ELSE no
        x == IF no < 2 THEN cur.U[2]
             ELSE IF no > cur.n THEN cur.U[cur.n + 1] ELSE u
        o == IF ord \in 0..2 THEN ord ELSE 0
    IN  /\ cur.n >= 2
        /\ DOMAIN cur.p = 2..cur.n
        /\ SplineScanDefined(cur, u)
        /\ val # Garbage
        /\ val = PolysEval(cur.p[i], x, o)

\* evaluate (1.0, 3): the interval found is n + 1, span n is read at U[n+1]
\* and the order is taken as 0
C13_Witness ==
  /\ pc = "derived"
  /\ tq = One
  /\ ord = 3
  /\ SplineIntervalNo(cur, SplineConvert(cur, tq)) = cur.n + 1
  /\ val = PolysEval(cur.p[cur.n], cur.U[cur.n + 1], 0)

====
